---- MODULE Spec2Model ----
(***************************************************************************)
(* api_client.py: a sequential runner that issues 17 hard-coded HTTP GETs  *)
(* against a local API, prints a bounded summary of every response        *)
(* (print_response) and persists it as JSON under api_responses/           *)
(* (save_response).                                                        *)
(*                                                                         *)
(* Text is modelled as a sequence of one-character strings, a JSON value   *)
(* as a tagged record, and a file's content as the token sequence that     *)
(* json.dump emits for the value (indentation is whitespace between        *)
(* tokens and is left out).                                                *)
(***************************************************************************)
EXTENDS Integers, Sequences, FiniteSets, TLC

(* ------------------------------ bounds -------------------------------- *)

\* Longest `data` array the reporter is tried on.
MaxData == 5

\* Longest label save_response is tried on.
MaxLabelLen == 3

\* Number of times the script is started.
MaxRuns == 2

\* Responses with a status other than 200 the server gives over all runs.
MaxNon200 == 1

(* ------------------------- program constants -------------------------- *)

\* data['data'][:3]
ShowMax == 3

BASE_URL == "http://localhost:8080"

OUTPUT_DIR == <<"a","p","i","_","r","e","s","p","o","n","s","e","s">>

\* The labels handed to print_response, in source order.
Labels == <<
    <<"1","_","h","e","a","l","t","h","_","c","h","e","c","k">>,
    <<"2","_","c","u","s","t","o","m","e","r","s","_","p","a","g","e","_","1">>,
    <<"3","_","c","u","s","t","o","m","e","r","s","_","u","s","a">>,
    <<"4","_","c","u","s","t","o","m","e","r","_","b","y","_","n","a","m","e">>,
    <<"5","_","c","u","s","t","o","m","e","r","s","_","b","o","r","n","_","a","f","t","e","r","_","1","9","9","0">>,
    <<"6","_","l","o","a","n","s","_","p","a","g","e","_","1">>,
    <<"7","_","l","o","a","n","s","_","h","i","g","h","_","d","e","b","t">>,
    <<"8","_","l","o","a","n","s","_","o","v","e","r","d","u","e">>,
    <<"9","_","l","o","a","n","s","_","a","c","t","i","v","e">>,
    <<"1","0","_","l","o","a","n","s","_","c","u","s","t","o","m","e","r","_","1","0">>,
    <<"1","1","_","l","o","a","n","s","_","r","e","c","e","n","t","_","a","c","t","i","v","e">>,
    <<"1","2","_","l","o","a","n","s","_","m","o","r","t","g","a","g","e">>,
    <<"1","3","_","l","o","a","n","s","_","h","i","g","h","_","r","i","s","k">>,
    <<"1","4","_","c","u","s","t","o","m","e","r","s","_","g","e","r","m","a","n","y">>,
    <<"1","5","_","c","u","s","t","o","m","e","r","s","_","i","d","_","r","a","n","g","e">>,
    <<"1","6","_","l","o","a","n","_","d","e","b","t","_","h","i","s","t","o","r","y">>,
    <<"1","7","_","l","o","a","n","_","d","e","b","t","_","p","r","o","g","r","e","s","s","i","o","n">>
>>

\* The path and query string of every requests.get, in source order.
Paths == <<
    "/health",
    "/customers?page=1&page_size=10",
    "/customers/country=USA?page=1&page_size=10",
    "/customers/full_name=John%20Smith",
    "/customers/birth_date>1990-01-01?sort=birth_date&order=desc&page=1&page_size=10",
    "/loans?page=1&page_size=10&sort=debt_amount&order=desc",
    "/loans/debt_amount>30000?sort=debt_amount&order=desc&page=1&page_size=10",
    "/loans/overdue_debt_amount>0?page=1&page_size=20",
    "/loans/loan_status=active?page=1&page_size=15",
    "/loans/customer_id=10",
    "/loans/report_date>2024-01-01&loan_status=active?page=1&page_size=10",
    "/loans/loan_type=Mortgage?page=1&page_size=10",
    "/loans/debt_amount>20000&overdue_debt_amount>1000?sort=overdue_debt_amount&order=desc&page=1&page_size=10",
    "/customers/country=Germany?page=1&page_size=20&sort=birth_date&order=asc",
    "/customers/customer_id>=100&customer_id<=200?page=1&page_size=10",
    "/loans/contract_number=LOAN-00000001?sort=report_date&order=asc",
    "/loans/contract_number=LOAN-00000050?sort=report_date&order=asc"
>>

NQueries == Len(Labels)

(* -------------------------------- text -------------------------------- *)

RECURSIVE Flatten(_)
\* The concatenation of a sequence of texts.
Flatten(ss) == IF ss = <<>> THEN <<>> ELSE Head(ss) \o Flatten(Tail(ss))

Capitals ==
    <<"A","B","C","D","E","F","G","H","I","J","K","L","M",
      "N","O","P","Q","R","S","T","U","V","W","X","Y","Z">>

Smalls ==
    <<"a","b","c","d","e","f","g","h","i","j","k","l","m",
      "n","o","p","q","r","s","t","u","v","w","x","y","z">>

\* str.lower(), one character
LowerChar(c) ==
    IF \E i \in 1..Len(Capitals) : Capitals[i] = c
    THEN Smalls[CHOOSE i \in 1..Len(Capitals) : Capitals[i] = c]
    ELSE c

\* str.lower()
Lower(s) == <<>> \o [i \in 1..Len(s) |-> LowerChar(s[i])]

\* str.replace(old, new) for a one-character old: every occurrence, left to right
Replace(s, old, new) ==
    IF \A i \in 1..Len(s) : s[i] # old THEN s
    ELSE Flatten([i \in 1..Len(s) |-> IF s[i] = old THEN new ELSE <<s[i]>>])

RECURSIVE Digits(_)
\* str(n) of a natural number
Digits(n) ==
    LET d == <<"0","1","2","3","4","5","6","7","8","9">>[(n % 10) + 1]
    IN  IF n < 10 THEN <<d>> ELSE Digits(n \div 10) \o <<d>>

\* datetime.isoformat() of the instant n of the clock
IsoFormat(n) == <<"T">> \o Digits(n)

\* os.path.join(dir, name)
PathJoin(dir, name) == dir \o <<"/">> \o name

(* ----------------------------- JSON values ---------------------------- *)

JNull == [t |-> "null"]
JNum(n) == [t |-> "num", n |-> n]
JStr(s) == [t |-> "str", s |-> s]
JArr(a) == [t |-> "arr", a |-> a]
\* A dict keeps its keys in insertion order: k the keys, v the values.
JObj(k, v) == [t |-> "obj", k |-> k, v |-> v]

HasKey(o, key) == \E i \in 1..Len(o.k) : o.k[i] = key

\* dict.get(key, default)
Get(o, key, default) ==
    IF HasKey(o, key) THEN o.v[CHOOSE i \in 1..Len(o.k) : o.k[i] = key] ELSE default

\* `is not None` in place of the truth value.
TruthyNotNone(x) == x.t # "null"

\* Python's truth value of a decoded JSON value (None, 0, "", [] and {} are false).
Truthy(x) ==
    CASE x.t = "null" -> FALSE
      [] x.t = "num" -> x.n # 0
      [] x.t = "str" -> x.s # <<>>
      [] x.t = "arr" -> x.a # <<>>
      [] x.t = "obj" -> x.k # <<>>

\* Whether x[:3] and len(x) are defined (a list or a str).
Sliceable(x) == x.t \in {"arr", "str"}

\* len(x)
SeqLen(x) == IF x.t = "arr" THEN Len(x.a) ELSE Len(x.s)

\* x[i] (1-based here)
SeqItem(x, i) == IF x.t = "arr" THEN x.a[i] ELSE JStr(<<x.s[i]>>)

Min(a, b) == IF a < b THEN a ELSE b

Tok(x) == [tok |-> x]

RECURSIVE JsonDump(_)
\* The tokens json.dump writes for a value.
JsonDump(x) ==
    CASE x.t = "null" -> <<Tok("null")>>
      [] x.t = "num" -> <<[tok |-> "num", n |-> x.n]>>
      [] x.t = "str" -> <<[tok |-> "str", s |-> x.s]>>
      [] x.t = "arr" ->
            <<Tok("[")>>
            \o Flatten([i \in 1..Len(x.a) |->
                  (IF i > 1 THEN <<Tok(",")>> ELSE <<>>) \o JsonDump(x.a[i])])
            \o <<Tok("]")>>
      [] x.t = "obj" ->
            <<Tok("{")>>
            \o Flatten([i \in 1..Len(x.k) |->
                  (IF i > 1 THEN <<Tok(",")>> ELSE <<>>)
                  \o <<[tok |-> "key", key |-> x.k[i]]>> \o JsonDump(x.v[i])])
            \o <<Tok("}")>>

RECURSIVE ParseValue(_), ParseItems(_, _), ParseMembers(_, _, _)
\* A JSON reader of the tokens of a file: the value read and the tokens left over.
\* The script never reads a file back; the reader states what a file holds.
ParseValue(ts) ==
    LET h == Head(ts)
    IN  CASE h.tok = "null" -> [val |-> JNull, rest |-> Tail(ts)]
          [] h.tok = "num" -> [val |-> JNum(h.n), rest |-> Tail(ts)]
          [] h.tok = "str" -> [val |-> JStr(h.s), rest |-> Tail(ts)]
          [] h.tok = "[" -> ParseItems(Tail(ts), <<>>)
          [] h.tok = "{" -> ParseMembers(Tail(ts), <<>>, <<>>)

ParseItems(ts, acc) ==
    IF Head(ts).tok = "]" THEN [val |-> JArr(acc), rest |-> Tail(ts)]
    ELSE LET ts1 == IF Head(ts).tok = "," THEN Tail(ts) ELSE ts
             r == ParseValue(ts1)
         IN  ParseItems(r.rest, Append(acc, r.val))

ParseMembers(ts, ks, vs) ==
    IF Head(ts).tok = "}" THEN [val |-> JObj(ks, vs), rest |-> Tail(ts)]
    ELSE LET ts1 == IF Head(ts).tok = "," THEN Tail(ts) ELSE ts
             r == ParseValue(Tail(ts1))
         IN  ParseMembers(r.rest, Append(ks, Head(ts1).key), Append(vs, r.val))

\* Whether tokens written by json.dump, possibly cut short, are one complete JSON
\* document: no bracket is left open.
WellFormed(ts) ==
    /\ ts # <<>>
    /\ Cardinality({i \in DOMAIN ts : ts[i].tok \in {"[", "{"}})
          = Cardinality({i \in DOMAIN ts : ts[i].tok \in {"]", "}"}})

JsonLoad(ts) == ParseValue(ts).val

(* ------------------------ console, network, disk ---------------------- *)

\* One print() call: what is printed and the value formatted into it.
Line(what, arg) == [ev |-> "print", what |-> what, arg |-> arg]

\* A call of save_response, with its arguments.
Call(name, data) == [ev |-> "save_response", name |-> name, data |-> data]

\* A file opened for writing and written.
Write(path) == [ev |-> "write", path |-> path]

\* requests.get(url)
HttpGet(path) == [ev |-> "GET", base |-> BASE_URL, path |-> path]

\* The files of a directory with the file at path holding content.
WithFile(fs, path, content) ==
    [p \in DOMAIN fs \cup {path} |-> IF p = path THEN content ELSE fs[p]]

\* How open() and json.dump end in save_response.
DiskOutcomes == {"ok", "open_error", "write_error"}

\* What a failed write leaves of the file: nothing, or the first half.
Cuts == {"empty", "half"}

CutAt(content, cut) == IF cut = "empty" THEN 0 ELSE Len(content) \div 2

(* ---------------------------- save_response --------------------------- *)

\* save_response without the .lower().
SafeNameKeepsCase(name) ==
    Replace(Replace(Replace(Replace(Replace(name,
        " ", <<"_">>), ":", <<>>), "=", <<>>), ">", <<"g","t">>), "<", <<"l","t">>)

\* filename = name.lower().replace(" ", "_").replace(":", "").replace("=", "")
\*                .replace(">", "gt").replace("<", "lt")
SafeName(name) ==
    Replace(Replace(Replace(Replace(Replace(Lower(name),
        " ", <<"_">>), ":", <<>>), "=", <<>>), ">", <<"g","t">>), "<", <<"l","t">>)

\* save_response writing every record to one and the same file.
JsonPathFixed(name) == PathJoin(OUTPUT_DIR, <<"r",".","j","s","o","n">>)

\* json_path = os.path.join(OUTPUT_DIR, f"{filename}.json")
JsonPath(name) == PathJoin(OUTPUT_DIR, SafeName(name) \o <<".","j","s","o","n">>)

\* data_with_meta
DataWithMeta(name, data, now) ==
    JObj(<<"timestamp", "query_name", "response">>,
         <<JStr(IsoFormat(now)), JStr(name), data>>)

\* save_response putting the timestamp into the file name.
save_responseVersioned(name, data, fs, t, outcome, cut) ==
    LET path == PathJoin(OUTPUT_DIR,
                    SafeName(name) \o IsoFormat(t) \o <<".","j","s","o","n">>)
        content == JsonDump(DataWithMeta(name, data, t))
    IN  CASE outcome = "open_error" ->
               [files |-> fs, now |-> t + 1,
                out |-> <<Call(name, data)>>, raised |-> TRUE]
          [] outcome = "write_error" ->
               [files |-> WithFile(fs, path, SubSeq(content, 1, CutAt(content, cut))),
                now |-> t + 1,
                out |-> <<Call(name, data)>>, raised |-> TRUE]
          [] outcome = "ok" ->
               [files |-> WithFile(fs, path, content), now |-> t + 1,
                out |-> <<Call(name, data), Write(path), Line("saved", path)>>,
                raised |-> FALSE]

\* save_response(name, data) on the files fs at the instant t of the clock, the
\* disk ending in outcome (a failed write leaving cut of the file): the files and
\* the clock afterwards, the effects in order, and whether an error was raised.
save_response(name, data, fs, t, outcome, cut) ==
    LET path == JsonPath(name)
        content == JsonDump(DataWithMeta(name, data, t))
    IN  CASE outcome = "open_error" ->
               [files |-> fs, now |-> t + 1,
                out |-> <<Call(name, data)>>, raised |-> TRUE]
          [] outcome = "write_error" ->
               [files |-> WithFile(fs, path, SubSeq(content, 1, CutAt(content, cut))),
                now |-> t + 1,
                out |-> <<Call(name, data)>>, raised |-> TRUE]
          [] outcome = "ok" ->
               [files |-> WithFile(fs, path, content), now |-> t + 1,
                out |-> <<Call(name, data), Write(path), Line("saved", path)>>,
                raised |-> FALSE]

(* --------------------------- print_response --------------------------- *)

\* The body of an HTTP response: text that is no JSON, or a JSON value.
TextBody == [kind |-> "text"]
JsonBody(x) == [kind |-> "json", val |-> x]

NA == JStr(<<"N","/","A">>)

\* Lines 40-42: the header.
Header(name) == <<Line("rule=", 0), Line("name", name), Line("rule=", 0)>>

\* Lines 46-48: the summary.
Summary(data) ==
    << Line("page", <<Get(data, "page", NA), Get(data, "page_size", NA)>>),
       Line("records", <<Get(data, "count", JNum(0)), Get(data, "total_count", NA)>>),
       Line("rule-", 0) >>

\* The loop without the [:3].
RecordsAll(d) ==
    Flatten([i \in 1..SeqLen(d) |->
        <<Line("record", JsonDump(SeqItem(d, i)))>>
        \o (IF i - 1 < Min(2, SeqLen(d) - 1) THEN <<Line("blank", 0)>> ELSE <<>>)])

\* Lines 52-55: the loop over data['data'][:3].
Records(d) ==
    Flatten([i \in 1..Min(ShowMax, SeqLen(d)) |->
        <<Line("record", JsonDump(SeqItem(d, i)))>>
        \o (IF i - 1 < Min(2, SeqLen(d) - 1) THEN <<Line("blank", 0)>> ELSE <<>>)])

\* Lines 57-58.
More(d) ==
    IF SeqLen(d) > ShowMax THEN <<Line("more", SeqLen(d) - ShowMax)>> ELSE <<>>

\* print_response calling save_response before it prints the summary.
print_responseSavesFirst(name, resp, fs, t, outcome, cut) ==
    LET body == resp.body
        stop(out) == [files |-> fs, now |-> t, out |-> out, raised |-> TRUE]
    IN  IF body.kind # "json" THEN stop(Header(name))
        ELSE LET data == body.val IN
        IF data.t # "obj" THEN stop(Header(name))
        ELSE LET d == Get(data, "data", JNull)
                 shown == Header(name) \o Summary(data)
             IN  IF Truthy(d) /\ ~Sliceable(d) THEN stop(shown)
                 ELSE LET listing == IF Truthy(d) THEN Records(d) \o More(d)
                                     ELSE <<Line("nodata", 0)>>
                          saved == save_response(name, data, fs, t, outcome, cut)
                      IN  [files |-> saved.files, now |-> saved.now,
                           out |-> Header(name) \o saved.out
                                   \o (IF saved.raised THEN <<>>
                                       ELSE Summary(data) \o listing),
                           raised |-> saved.raised]

\* print_response with response.raise_for_status() before response.json().
print_responseChecked(name, resp, fs, t, outcome, cut) ==
    LET body == resp.body
        stop(out) == [files |-> fs, now |-> t, out |-> out, raised |-> TRUE]
    IN  IF resp.status # 200 \/ body.kind # "json" THEN stop(Header(name))
        ELSE LET data == body.val IN
        IF data.t # "obj" THEN stop(Header(name))
        ELSE LET d == Get(data, "data", JNull)
                 shown == Header(name) \o Summary(data)
             IN  IF Truthy(d) /\ ~Sliceable(d) THEN stop(shown)
                 ELSE LET listing == IF Truthy(d) THEN Records(d) \o More(d)
                                     ELSE <<Line("nodata", 0)>>
                          saved == save_response(name, data, fs, t, outcome, cut)
                      IN  [files |-> saved.files, now |-> saved.now,
                           out |-> shown \o listing \o saved.out,
                           raised |-> saved.raised]

\* print_response returning early when there is nothing to list.
print_responseSkipsEmpty(name, resp, fs, t, outcome, cut) ==
    LET body == resp.body
        stop(out) == [files |-> fs, now |-> t, out |-> out, raised |-> TRUE]
    IN  IF body.kind # "json" THEN stop(Header(name))
        ELSE LET data == body.val IN
        IF data.t # "obj" THEN stop(Header(name))
        ELSE LET d == Get(data, "data", JNull)
                 shown == Header(name) \o Summary(data)
             IN  IF Truthy(d) /\ ~Sliceable(d) THEN stop(shown)
                 ELSE LET listing == IF Truthy(d) THEN Records(d) \o More(d)
                                     ELSE <<Line("nodata", 0)>>
                          saved == save_response(name, data, fs, t, outcome, cut)
                      IN  IF ~Truthy(d)
                          THEN [files |-> fs, now |-> t, out |-> shown \o listing,
                                raised |-> FALSE]
                          ELSE [files |-> saved.files, now |-> saved.now,
                                out |-> shown \o listing \o saved.out,
                                raised |-> saved.raised]

\* print_response(name, response): the files afterwards, the effects in order,
\* and whether an error was raised.
print_response(name, resp, fs, t, outcome, cut) ==
    LET body == resp.body
        stop(out) == [files |-> fs, now |-> t, out |-> out, raised |-> TRUE]
    IN  IF body.kind # "json" THEN stop(Header(name))      \* response.json() raises
        ELSE LET data == body.val IN
        IF data.t # "obj" THEN stop(Header(name))          \* data.get: AttributeError
        ELSE LET d == Get(data, "data", JNull)
                 shown == Header(name) \o Summary(data)
             IN  IF Truthy(d) /\ ~Sliceable(d) THEN stop(shown)   \* d[:3]: TypeError
                 ELSE LET listing == IF Truthy(d) THEN Records(d) \o More(d)
                                     ELSE <<Line("nodata", 0)>>
                          saved == save_response(name, data, fs, t, outcome, cut)
                      IN  [files |-> saved.files, now |-> saved.now,
                           out |-> shown \o listing \o saved.out,
                           raised |-> saved.raised]

(* ------------------------------- server ------------------------------- *)

\* The envelope the API answers query k with during run r: /health has no data,
\* the other queries list between 0 and 4 records.
Envelope(r, k) ==
    IF k = 1 THEN JObj(<<"status">>, <<JStr(<<"o","k">>)>>)
    ELSE LET n == (k + r) % 5
         IN  JObj(<<"page", "page_size", "count", "total_count", "data">>,
                  <<JNum(1), JNum(10), JNum(n), JNum(100 * r + k),
                    JArr([i \in 1..n |-> JObj(<<"id">>, <<JNum(10 * k + i)>>)])>>)

\* The JSON body of an error answer.
ErrorBody == JObj(<<"error">>, <<JStr(<<"n","o">>)>>)

Statuses == {200, 404, 500}

\* What requests.get(url) of query k in run r may return, the server having
\* already given `used` answers with a status other than 200.
Replies(r, k, used) ==
    {[status |-> 200, body |-> b] :
        b \in {JsonBody(Envelope(r, k)), TextBody, JsonBody(JArr(<<>>))}}
    \cup (IF used < MaxNon200
          THEN {[status |-> st, body |-> b] :
                   st \in Statuses \ {200},
                   b \in {JsonBody(ErrorBody), TextBody}}
          ELSE {})

NoResponse == [status |-> 0, body |-> TextBody]

(* -------------------------------- state ------------------------------- *)

VARIABLES
    pc,        \* where the script is: start, get, print, finish, done, crashed
    run,       \* how many times the script has been started
    q,         \* the query in progress (its place in the source, 1..17)
    name,      \* the label of print_response or save_response in progress
    response,  \* the variable `response`
    dir,       \* what is at OUTPUT_DIR: absent, dir, or file (not a directory)
    files,     \* the files of OUTPUT_DIR: path -> content
    now,       \* the clock
    io,        \* this process's effects in order: prints, GETs, helper calls, writes
    non200     \* answers with a status other than 200 the server has given

vars == <<pc, run, q, name, response, dir, files, now, io, non200>>

NoFiles == [p \in {} |-> <<>>]

\* A record an earlier use of the script left for label nm.
Stale(nm) == JsonDump(DataWithMeta(nm, Envelope(0, 2), 0))

\* A file in the directory that is not one of the script's.
Foreign == PathJoin(OUTPUT_DIR, <<"n","o","t","e","s",".","t","x","t">>)

\* What the output directory may hold before the script starts.
StartDisks ==
    { [dir |-> "absent", files |-> NoFiles],
      [dir |-> "file", files |-> NoFiles],
      [dir |-> "dir", files |-> NoFiles],
      [dir |-> "dir",
       files |-> WithFile(WithFile(NoFiles, Foreign, <<Tok("null")>>),
                          JsonPath(Labels[1]), Stale(Labels[1]))] }

\* The state before the script runs, the disk holding d and the server having
\* given `used` answers with a status other than 200.
Start(d, used) ==
    /\ pc = "start"
    /\ run = 1
    /\ q = 1
    /\ name = <<>>
    /\ response = NoResponse
    /\ dir = d.dir
    /\ files = d.files
    /\ now = 1
    /\ io = <<>>
    /\ non200 = used

Init == \E d \in StartDisks : Start(d, 0)

\* Repeated runs: the server answers 200 or not at all.
InitRuns == \E d \in StartDisks : Start(d, MaxNon200)

(* ------------------------------- actions ------------------------------ *)

\* Lines 65-67.
Banner == <<Line("rule=", 0), Line("banner", 0), Line("rule=", 0)>>

\* Lines 154-183.
Epilogue == <<Line("rule=", 0), Line("completed", 0), Line("saved_to", OUTPUT_DIR),
              Line("rule=", 0), Line("help", 0)>>

\* os.makedirs without exist_ok=True.
makedirsStrict(d) ==
    IF d = "absent" THEN [dir |-> "dir", raised |-> FALSE]
    ELSE [dir |-> d, raised |-> TRUE]

\* os.makedirs(OUTPUT_DIR, exist_ok=True): what is at the path afterwards, or an
\* error when the path is a file.
makedirs(d) ==
    CASE d = "absent" -> [dir |-> "dir", raised |-> FALSE]
      [] d = "dir" -> [dir |-> "dir", raised |-> FALSE]
      [] d = "file" -> [dir |-> "file", raised |-> TRUE]

\* Lines 16-18 and 65-67: create the output directory, print the banner.
Startup ==
    /\ pc = "start"
    /\ LET m == makedirs(dir)
       IN  /\ dir' = m.dir
           /\ pc' = IF m.raised THEN "crashed" ELSE "get"
           /\ io' = IF m.raised THEN io ELSE io \o Banner
    /\ UNCHANGED <<run, q, name, response, files, now, non200>>

\* print("\nk. ...") and response = requests.get(f"{BASE_URL}{path}") of query q.
Request ==
    /\ pc = "get"
    /\ io' = io \o <<Line("title", q), HttpGet(Paths[q])>>
    /\ \/ /\ pc' = "crashed"                       \* the connection fails
          /\ UNCHANGED <<response, non200>>
       \/ \E r \in Replies(run, q, non200) :
            /\ response' = r
            /\ non200' = IF r.status = 200 THEN non200 ELSE non200 + 1
            /\ pc' = "print"
    /\ UNCHANGED <<run, q, name, dir, files, now>>

\* The query sequence with every error caught and passed over.
ReportCarriesOn ==
    /\ pc = "print"
    /\ \E outcome \in DiskOutcomes, cut \in Cuts :
         LET r == print_response(Labels[q], response, files, now, outcome, cut)
         IN  /\ files' = r.files
             /\ now' = r.now
             /\ io' = io \o r.out
             /\ pc' = IF q < NQueries THEN "get" ELSE "finish"
             /\ q' = IF q < NQueries THEN q + 1 ELSE q
    /\ name' = Labels[q]
    /\ UNCHANGED <<run, response, dir, non200>>

\* print_response(label, response) of query q, save_response included.
Report ==
    /\ pc = "print"
    /\ \E outcome \in DiskOutcomes, cut \in Cuts :
         LET r == print_response(Labels[q], response, files, now, outcome, cut)
         IN  /\ files' = r.files
             /\ now' = r.now
             /\ io' = io \o r.out
             /\ pc' = IF r.raised THEN "crashed"
                      ELSE IF q < NQueries THEN "get" ELSE "finish"
             /\ q' = IF ~r.raised /\ q < NQueries THEN q + 1 ELSE q
    /\ name' = Labels[q]
    /\ UNCHANGED <<run, response, dir, non200>>

\* Lines 154-183: the closing messages.
Finish ==
    /\ pc = "finish"
    /\ io' = io \o Epilogue
    /\ pc' = "done"
    /\ UNCHANGED <<run, q, name, response, dir, files, now, non200>>

\* The script is started again after a complete run.
Rerun ==
    /\ pc = "done"
    /\ run < MaxRuns
    /\ run' = run + 1
    /\ pc' = "start"
    /\ q' = 1
    /\ name' = <<>>
    /\ response' = NoResponse
    /\ io' = <<>>
    /\ UNCHANGED <<dir, files, now, non200>>

\* One run of the script.
Next == Startup \/ Request \/ Report \/ Finish

Spec == Init /\ [][Next]_vars

\* The script run again and again.
NextRuns == Next \/ Rerun

SpecRuns == InitRuns /\ [][NextRuns]_vars

(* ---------------------- print_response on its own --------------------- *)

Items(n) == JArr([i \in 1..n |-> JObj(<<"id">>, <<JNum(i)>>)])

\* What the `data` field of a response may hold.
DataValues ==
    <<JNull, JNum(0), JNum(7), JStr(<<>>), JStr(<<"a","b","c","d">>),
      JObj(<<>>, <<>>), JObj(<<"x">>, <<JNum(1)>>)>>
    \o [n \in 1..(MaxData + 1) |-> Items(n - 1)]

\* The bodies print_response is tried on: no JSON, JSON that is no object,
\* objects without `data`, and objects with each of DataValues as `data`.
ReporterBodies ==
    <<TextBody, JsonBody(JArr(<<>>)), JsonBody(JNull), JsonBody(JObj(<<>>, <<>>)),
      JsonBody(JObj(<<"page", "count">>, <<JNum(1), JNum(0)>>)),
      JsonBody(ErrorBody)>>
    \o [i \in 1..Len(DataValues) |->
          JsonBody(JObj(<<"page", "data">>, <<JNum(1), DataValues[i]>>))]

ReporterLabels == {Labels[1], <<"A"," ","b">>}

InitReporter ==
    /\ pc = "print_response"
    /\ run = 1
    /\ q = 1
    /\ name \in ReporterLabels
    /\ \E i \in 1..Len(ReporterBodies), st \in Statuses :
          response = [status |-> st, body |-> ReporterBodies[i]]
    /\ dir = "dir"
    /\ files \in {NoFiles, WithFile(NoFiles, JsonPath(Labels[1]), Stale(Labels[1]))}
    /\ now = 1
    /\ io = <<>>
    /\ non200 = 0

\* One call print_response(name, response).
CallReporter ==
    /\ pc = "print_response"
    /\ \E outcome \in DiskOutcomes, cut \in Cuts :
         LET r == print_response(name, response, files, now, outcome, cut)
         IN  /\ files' = r.files
             /\ now' = r.now
             /\ io' = r.out
             /\ pc' = IF r.raised THEN "raised" ELSE "returned"
    /\ UNCHANGED <<run, q, name, response, dir, non200>>

SpecReporter == InitReporter /\ [][CallReporter]_vars

(* ----------------------- save_response on its own --------------------- *)

\* The characters labels are made of: letters of both cases and every character
\* save_response replaces.
Alphabet == {"A", "z", " ", ":", "=", ">", "<"}

RECURSIVE Texts(_)
\* The texts of at most n characters.
Texts(n) ==
    IF n = 0 THEN {<<>>}
    ELSE LET shorter == Texts(n - 1)
         IN  shorter \cup {Append(s, c) : s \in shorter, c \in Alphabet}

\* The values save_response is handed.
SaveData == <<JNull, ErrorBody, Items(2)>>

InitSave ==
    /\ pc = "save_response"
    /\ run = 1
    /\ q = 1
    /\ name \in Texts(MaxLabelLen)
    /\ \E i \in 1..Len(SaveData) :
          response = [status |-> 200, body |-> JsonBody(SaveData[i])]
    /\ dir = "dir"
    /\ files \in {NoFiles, WithFile(NoFiles, JsonPath(<<"A">>), Stale(<<"a">>))}
    /\ now = 1
    /\ io = <<>>
    /\ non200 = 0

\* One call save_response(name, data), data being the decoded body.
CallPersister ==
    /\ pc = "save_response"
    /\ \E outcome \in DiskOutcomes, cut \in Cuts :
         LET r == save_response(name, response.body.val, files, now, outcome, cut)
         IN  /\ files' = r.files
             /\ now' = r.now
             /\ io' = r.out
             /\ pc' = IF r.raised THEN "raised" ELSE "returned"
    /\ UNCHANGED <<run, q, name, response, dir, non200>>

SpecSave == InitSave /\ [][CallPersister]_vars

(* ------------------------- reading the effects ------------------------ *)

\* The places in io of the effects of one kind.
Events(ev) == {i \in DOMAIN io : io[i].ev = ev}

\* The places in io of the printed lines of one kind.
Printed(what) == {i \in DOMAIN io : io[i].ev = "print" /\ io[i].what = what}

\* The call has ended, by returning or by raising.
Ended == pc \in {"returned", "raised"}

\* The response in hand is a JSON object.
IsObject == response.body.kind = "json" /\ response.body.val.t = "obj"

\* The `data` field of the response in hand (None when absent).
DataField == Get(response.body.val, "data", JNull)

\* The only effect of the kind is one call save_response(name, decoded body).
SavedOnce ==
    /\ Cardinality(Events("save_response")) = 1
    /\ \A i \in Events("save_response") :
          io[i].name = name /\ io[i].data = response.body.val

(* ------------------------------ claim C4 ------------------------------ *)

\* What the claim says one character of a label becomes in the file name.
Substitute(c) ==
    CASE c = " " -> <<"_">>
      [] c = ":" -> <<>>
      [] c = "=" -> <<>>
      [] c = ">" -> <<"g","t">>
      [] c = "<" -> <<"l","t">>
      [] OTHER -> <<LowerChar(c)>>

\* api_responses/<name>.json, <name> the label with every character substituted.
ClaimedPath(label) ==
    OUTPUT_DIR \o <<"/">> \o Flatten([i \in 1..Len(label) |-> Substitute(label[i])])
    \o <<".","j","s","o","n">>

C5_NoDataFieldStillSaved ==
    (Ended /\ IsObject /\ ~HasKey(response.body.val, "data")) =>
        /\ Cardinality(Printed("nodata")) = 1
        /\ Printed("record") = {}
        /\ SavedOnce
        /\ \A i \in Printed("nodata"), j \in Events("save_response") : i < j

C5_Witness ==
    /\ pc = "returned"
    /\ IsObject
    /\ ~HasKey(response.body.val, "data")
    /\ Printed("nodata") # {}
    /\ Events("write") # {}

(* ------------------------------ claim C6 ------------------------------ *)

\* The record lines of io, in order.
RecordLines == SelectSeq(io, LAMBDA e : e.ev = "print" /\ e.what = "record")

\* C6: print_response of a `data` array of n >= 1 items prints exactly
\* min(n, 3) records, the first ones in order, prints "... and (n-3) more
\* records" if and only if n > 3, and then calls save_response exactly once.
C6_FirstThreeRecords ==
    (Ended /\ IsObject /\ DataField.t = "arr" /\ Len(DataField.a) >= 1) =>
        LET n == Len(DataField.a)
            m == IF n < 3 THEN n ELSE 3
        IN  /\ Len(RecordLines) = m
            /\ \A i \in 1..m : RecordLines[i].arg = JsonDump(DataField.a[i])
            /\ (Printed("more") # {}) <=> (n > 3)
            /\ Cardinality(Printed("more")) <= 1
            /\ \A i \in Printed("more") : io[i].arg = n - 3
            /\ Printed("nodata") = {}
            /\ SavedOnce
            /\ \A i \in Printed("record") \cup Printed("more"),
                  j \in Events("save_response") : i < j

C6_Witness ==
    /\ pc = "returned"
    /\ IsObject
    /\ DataField.t = "arr"
    /\ Len(DataField.a) = 5
    /\ Len(RecordLines) = 3
    /\ \E i \in Printed("more") : io[i].arg = 2

(* ------------------------------ claim C10 ----------------------------- *)

\* C10 as stated: whenever a `data` sequence exists, an empty one included, the
\* records branch is taken and "No data found" is not printed.
C10_AsStated ==
    (Ended /\ IsObject /\ HasKey(response.body.val, "data") /\ DataField.t = "arr") =>
        Printed("nodata") = {}

\* C10 as amended: print_response prints "No data found" exactly when the `data`
\* field is absent or false in Python's sense (None, an empty sequence, 0, "",
\* {}); for a non-empty `data` array the records branch is taken, between 1 and
\* 3 records are shown and "No data found" is not printed.
C10_NoDataIffFalsy ==
    (Ended /\ IsObject /\ (~Truthy(DataField) \/ Sliceable(DataField))) =>
        /\ (Printed("nodata") # {}) <=>
              (~HasKey(response.body.val, "data")
               \/ DataField.t = "null"
               \/ (DataField.t = "arr" /\ Len(DataField.a) = 0)
               \/ (DataField.t = "str" /\ Len(DataField.s) = 0)
               \/ (DataField.t = "num" /\ DataField.n = 0)
               \/ (DataField.t = "obj" /\ Len(DataField.k) = 0))
        /\ (DataField.t = "arr" /\ Len(DataField.a) > 0) =>
              /\ Printed("nodata") = {}
              /\ Len(RecordLines) >= 1
              /\ Len(RecordLines) <= 3

\* An empty `data` array has been reported as "No data found".
C10_Witness ==
    /\ Ended
    /\ IsObject
    /\ HasKey(response.body.val, "data")
    /\ DataField.t = "arr"
    /\ Len(DataField.a) = 0
    /\ Printed("nodata") # {}

(* --------------------------- reading one run -------------------------- *)

Queries == 1..NQueries

\* The file of every label.
LabelPath == [k \in Queries |-> JsonPath(Labels[k])]

\* The query a path of the API, a label or a file belongs to (0: none).
PathNo(p) == IF \E k \in Queries : Paths[k] = p
             THEN CHOOSE k \in Queries : Paths[k] = p ELSE 0
LabelNo(l) == IF \E k \in Queries : Labels[k] = l
              THEN CHOOSE k \in Queries : Labels[k] = l ELSE 0
FileNo(paths, f) == IF \E k \in Queries : paths[k] = f
                    THEN CHOOSE k \in Queries : paths[k] = f ELSE 0

\* What an effect is, and for which query: the GET, the header and the summary
\* line print_response prints, the call of save_response, the file write, and the
\* closing "All tests completed".
Tag(e, paths) ==
    CASE e.ev = "GET" -> <<"get", PathNo(e.path)>>
      [] e.ev = "save_response" -> <<"call", LabelNo(e.name)>>
      [] e.ev = "write" -> <<"write", FileNo(paths, e.path)>>
      [] e.ev = "print" /\ e.what = "name" -> <<"header", LabelNo(e.arg)>>
      [] e.ev = "print" /\ e.what = "page" -> <<"summary", 0>>
      [] e.ev = "print" /\ e.what = "completed" -> <<"completed", 0>>
      [] OTHER -> <<"other", 0>>

\* The run so far, as the sequence of these steps.
StepsOf(log, paths) ==
    SelectSeq([i \in DOMAIN log |-> Tag(log[i], paths)], LAMBDA t : t[1] # "other")

\* (A bound variable holds a value: the table of paths is computed once.)
Steps == CHOOSE s \in {StepsOf(io, paths) : paths \in {<<>> \o LabelPath}} : TRUE

\* A run in which nothing fails.
FullRun ==
    Flatten([k \in Queries |->
        << <<"get", k>>, <<"header", k>>, <<"summary", 0>>, <<"call", k>>,
           <<"write", k>> >>])
    \o << <<"completed", 0>> >>

IsPrefix(s, t) == Len(s) <= Len(t) /\ s = SubSeq(t, 1, Len(s))

Has(steps, t) == \E i \in DOMAIN steps : steps[i] = t

\* Query k was requested and the script is done with it without having written
\* its file: the request, the decoding, the summary or the write failed.
FailedIn(steps, k) ==
    /\ Has(steps, <<"get", k>>)
    /\ ~Has(steps, <<"write", k>>)
    /\ ~(pc = "print" /\ q = k)

Failed(k) == FailedIn(Steps, k)

(* ------------------------------ claim C1 ------------------------------ *)

\* C1: the 17 queries run in source order, one after the other. The run is at
\* every moment a prefix of GET 1, summary 1, save 1, write 1, GET 2, ...,
\* write 17, "All tests completed": every query is requested at most once, its
\* summary follows its GET, its file write follows its summary, and the GET of
\* query k+1 follows the file write of query k. A run that completes has done
\* all of it.
C1_SequentialInSourceOrder ==
    \A steps \in {Steps} :
        /\ IsPrefix(steps, FullRun)
        /\ pc = "get" => steps = SubSeq(FullRun, 1, 5 * (q - 1))
        /\ pc = "print" => steps = SubSeq(FullRun, 1, 5 * (q - 1) + 1)
        /\ pc = "finish" => steps = SubSeq(FullRun, 1, 5 * NQueries)
        /\ pc = "done" => steps = FullRun

\* The run has written the file of query 16 and has requested query 17.
C1_Witness ==
    /\ pc = "print"
    /\ q = NQueries
    /\ Has(Steps, <<"write", NQueries - 1>>)
    /\ Has(Steps, <<"get", NQueries>>)

(* ------------------------------ claim C2 ------------------------------ *)

\* The file of label k holds a complete record of that label.
Holds(k) ==
    \E f \in {LabelPath[k]} :
        /\ f \in DOMAIN files
        /\ WellFormed(files[f])
        /\ Get(JsonLoad(files[f]), "query_name", JNull) = JStr(Labels[k])

\* C2: once query k has failed (network, decoding, summary or disk), the run is
\* over at that point: query k was requested once, no later query is requested,
\* no file of query k or of a later query is written, "All tests completed" is
\* not printed, the files of queries 1..k-1 were written and are in place, and
\* nothing happens after.
C2_FailureEndsTheRun ==
    /\ [](\A steps \in {Steps} : \A k \in Queries : FailedIn(steps, k) =>
            /\ pc = "crashed"
            /\ q = k
            /\ Len(SelectSeq(steps, LAMBDA t : t = <<"get", k>>)) = 1
            /\ \A i \in DOMAIN steps : steps[i][2] <= k
            /\ ~Has(steps, <<"completed", 0>>)
            /\ \A j \in 1..(k - 1) : Has(steps, <<"write", j>>) /\ Holds(j))
    /\ [][pc = "crashed" => UNCHANGED vars]_vars

\* Query 3 failed after its response arrived, the files of 1 and 2 written.
C2_Witness ==
    /\ Failed(3)
    /\ Has(Steps, <<"header", 3>>)
    /\ Holds(1)
    /\ Holds(2)

(* ------------------------------ claim C3 ------------------------------ *)

\* C3 as stated: a status other than 200 ends the run at that query, whatever
\* the body: the script never gets past a response with such a status, and no
\* file is written for it.
C3_AsStated ==
    (response.status # 0 /\ response.status # 200) =>
        /\ pc \in {"print", "crashed"}
        /\ ~Has(Steps, <<"write", q>>)

\* C3 as amended: the status is never looked at. A response whose status is not
\* 200 is handled as any other: if its body is a JSON object and the write
\* succeeds, the record is saved with that body and the script goes on to the
\* next query; the run ends at that query only if the body is no JSON, is no
\* JSON object (save_response is then not called), or the file cannot be
\* written, and then no record is saved.
C3_StatusIsIgnored ==
    [][(pc = "print" /\ response.status # 200 /\ pc' # "print") =>
        LET path == LabelPath[q]
            called == \E i \in DOMAIN io' : i > Len(io) /\ io'[i].ev = "save_response"
            wrote == \E i \in DOMAIN io' : i > Len(io) /\ io'[i].ev = "write"
        IN  /\ called <=> IsObject
            /\ IF IsObject /\ wrote
               THEN /\ pc' = IF q < NQueries THEN "get" ELSE "finish"
                    /\ q' = IF q < NQueries THEN q + 1 ELSE q
                    /\ WellFormed(files'[path])
                    /\ Get(JsonLoad(files'[path]), "response", JNull) = response.body.val
               ELSE /\ pc' = "crashed"
                    /\ q' = q
                    /\ (~IsObject => files' = files)
                    /\ \A p \in DOMAIN files' :
                          (p \notin DOMAIN files \/ files'[p] # files[p]) =>
                             ~WellFormed(files'[p])]_vars

\* A 404 with a JSON error body was saved and the next query is up.
C3_Witness ==
    /\ response.status = 404
    /\ response.body = JsonBody(ErrorBody)
    /\ pc = "get"
    /\ q = 5
    /\ Has(Steps, <<"write", 4>>)
    /\ Get(JsonLoad(files[LabelPath[4]]), "response", JNull) = ErrorBody

(* ------------------------------ claim C7 ------------------------------ *)

\* The body this run handed to save_response for label k.
SavedBody(k) ==
    io[CHOOSE i \in DOMAIN io : io[i].ev = "save_response" /\ io[i].name = Labels[k]].data

C8_DirectoryBeforeRequests ==
    /\ [](Events("GET") # {} => dir = "dir")
    /\ [][pc = "start" =>
            /\ files' = files
            /\ (dir \in {"absent", "dir"} => dir' = "dir" /\ pc' = "get")]_vars

\* The first request went out of a run that found the directory with two files.
C8_Witness ==
    /\ Events("GET") # {}
    /\ pc = "print"
    /\ q = 1
    /\ dir = "dir"
    /\ Foreign \in DOMAIN files
    /\ files[LabelPath[1]] = Stale(Labels[1])

(* ------------------------------ claim C9 ------------------------------ *)

\* C9: within a run a record is written once: no file is written twice, no step
\* removes a file from the directory, and a file the run has written is not
\* changed by any later step of the run.
C9_WrittenOnce ==
    /\ [](\A i, j \in Events("write") : io[i].path = io[j].path => i = j)
    /\ [][/\ DOMAIN files \subseteq DOMAIN files'
          /\ \A i \in Events("write") : files'[io[i].path] = files[io[i].path]]_vars

\* Sixteen files are written and the run is still going.
C9_Witness ==
    /\ pc = "print"
    /\ q = NQueries
    /\ Cardinality(Events("write")) = NQueries - 1
    /\ Foreign \in DOMAIN files

====
